---- MODULE Spec2Model ----
(***************************************************************************)
(* nac: arithmetic expression evaluator (src/lib.rs, src/main.rs).         *)
(*                                                                         *)
(* Text is a sequence of one-character strings.  An Expression is a record *)
(* whose field k is the variant tag: Unit(val), the seven operators with   *)
(* lhs/rhs (None when unset), and Group(body).  Expression::root tokenizes *)
(* the input; Expression::eval walks the tree and resolves each Group it   *)
(* enters, one Group::parse_params call per step of the model.             *)
(***************************************************************************)
EXTENDS Integers, Sequences, FiniteSets, TLC

VARIABLES input, pc, root, result

vars == <<input, pc, root, result>>

-----------------------------------------------------------------------------
(* Bounds of the model *)

\* longest input text of the character-level specification
MaxLen == 4

\* longest input text of the expression-level specification
MaxExprLen == 4

\* literals of the three-operand expressions are the digits 0..MaxLit
MaxLit == 4

\* integers of magnitude up to MaxExact are computed exactly; a larger or a
\* non-integral float is kept as the term of the operation that produced it
MaxExact == 1000000

-----------------------------------------------------------------------------
(* Characters *)

Digits == <<"0", "1", "2", "3", "4", "5", "6", "7", "8", "9">>

HexLetters == <<"a", "b", "c", "d", "e", "f">>

is_whitespace(c) == c = " "

is_digit10(c) == \E i \in 1..10 : Digits[i] = c

is_digit16(c) == is_digit10(c) \/ \E i \in 1..6 : HexLetters[i] = c

to_digit(c) ==
    IF is_digit10(c) THEN (CHOOSE i \in 1..10 : Digits[i] = c) - 1
    ELSE (CHOOSE i \in 1..6 : HexLetters[i] = c) + 9

ends_with_dot(buf) == Len(buf) > 0 /\ buf[Len(buf)] = "."

-----------------------------------------------------------------------------
(* Expression (src/lib.rs 3-21) *)

None == [k |-> "None"]

Unit(val) == [k |-> "Unit", val |-> val]

Op(kind, lhs, rhs) == [k |-> kind, lhs |-> lhs, rhs |-> rhs]

Group(body) == [k |-> "Group", body |-> body]

OpKinds == {"Add", "Sub", "Mul", "Div", "Mod", "Pow", "Root"}

\* OpParams::default(): both operands unset
OpParamsDefault(kind) == Op(kind, None, None)

OpChars == {"+", "-", "*", "/", "%", "^", "~"}

op_of_char(c) ==
    CASE c = "+" -> "Add"
      [] c = "-" -> "Sub"
      [] c = "*" -> "Mul"
      [] c = "/" -> "Div"
      [] c = "%" -> "Mod"
      [] c = "^" -> "Pow"
      [] c = "~" -> "Root"

Ok(exps) == [ok |-> TRUE, exps |-> exps]

Fail(kind) == [ok |-> FALSE, err |-> kind]

-----------------------------------------------------------------------------
(* tokenize (src/lib.rs 185-284) *)

\* index of the last character of the literal that starts at s[i]: the
\* peek loop takes every following digit or '.'
RECURSIVE decimal_end(_, _)
decimal_end(s, i) ==
    IF i < Len(s) /\ (is_digit10(s[i + 1]) \/ s[i + 1] = ".")
    THEN decimal_end(s, i + 1)
    ELSE i

\* index of the last hexadecimal digit after the '#' at s[i] (i when none)
RECURSIVE hex_end(_, _)
hex_end(s, i) ==
    IF i < Len(s) /\ is_digit16(s[i + 1])
    THEN hex_end(s, i + 1)
    ELSE i

\* u64::from_str_radix(buf, 16): the value, or -1 for the empty text.  A
\* u64 holds every text of up to 16 digits; longer texts are beyond the bounds.
RECURSIVE hex_value(_, _)
hex_value(buf, acc) ==
    IF buf = <<>> THEN acc
    ELSE hex_value(Tail(buf), acc * 16 + to_digit(Head(buf)))

from_str_radix(buf) == IF buf = <<>> THEN -1 ELSE hex_value(buf, 0)

\* u64::to_string: decimal text of a natural number
RECURSIVE to_string(_)
to_string(n) ==
    IF n < 10 THEN <<Digits[n + 1]>>
    ELSE Append(to_string(n \div 10), Digits[(n % 10) + 1])

\* paren_depth with the decrement on ')' left out
paren_depth_no_close(sc, c) == IF c = "(" THEN sc + 1 ELSE sc

\* the depth counter of the parenthesis capture after character c was read
\* and found not to close the group
paren_depth(sc, c) ==
    IF c = ")" THEN sc - 1
    ELSE IF c = "(" THEN sc + 1
    ELSE sc

\* the 'parse_paren loop from s[i]: the captured text and the index after the
\* closing ')', or failure at the end of the input
RECURSIVE parse_paren(_, _, _, _)
parse_paren(s, i, sc, buf) ==
    IF i > Len(s) THEN [ok |-> FALSE, buf |-> buf, next |-> i]
    ELSE IF s[i] = ")" /\ sc = 0 THEN [ok |-> TRUE, buf |-> buf, next |-> i + 1]
    ELSE parse_paren(s, i + 1, paren_depth(sc, s[i]), Append(buf, s[i]))

\* the decimal literal read from s[i..j]
decimal_literal(s, i, j) ==
    LET buf == SubSeq(s, i, j)
    IN  Unit(IF ends_with_dot(buf) THEN Append(buf, "0") ELSE buf)

RECURSIVE tokenize_from(_, _, _)
tokenize_from(s, i, exps) ==
    IF i > Len(s) THEN Ok(exps)
    ELSE LET char == s[i] IN
      IF is_whitespace(char) THEN tokenize_from(s, i + 1, exps)
      ELSE IF is_digit10(char) THEN
        LET j == decimal_end(s, i)
        IN  tokenize_from(s, j + 1, Append(exps, decimal_literal(s, i, j)))
      ELSE IF char = "#" THEN
        LET j == hex_end(s, i)
            val == from_str_radix(SubSeq(s, i + 1, j))
        IN  IF val < 0 THEN Fail("InvalidHexLiteral")
            ELSE tokenize_from(s, j + 1, Append(exps, Unit(to_string(val))))
      ELSE IF char \in OpChars THEN
        tokenize_from(s, i + 1, Append(exps, OpParamsDefault(op_of_char(char))))
      ELSE IF char = "(" THEN
        LET cap == parse_paren(s, i + 1, 0, <<>>)
        IN  IF ~cap.ok THEN Fail("UnterminatedGroup")
            ELSE LET body == tokenize_from(cap.buf, 1, <<>>)
                 IN  IF ~body.ok THEN body
                     ELSE tokenize_from(s, cap.next, Append(exps, Group(body.exps)))
      ELSE IF char = ")" THEN Fail("UnmatchedCloseParen")
      ELSE Fail("UnexpectedCharacter")

tokenize(s) == tokenize_from(s, 1, <<>>)

-----------------------------------------------------------------------------
(* f64 values.  IntV(n) is the float that equals the integer n (never the  *)
(* negative zero); every other float is the term of the operation, or the  *)
(* literal, that produced it.  Equal terms denote equal floats.            *)

IntV(n) == [t |-> "int", n |-> n]

FloatV(op, l, r) == [t |-> op, l |-> l, r |-> r]

Abs(n) == IF n < 0 THEN -n ELSE n

Exact(n) == Abs(n) <= MaxExact

BothInt(l, r) == l.t = "int" /\ r.t = "int"

\* lhs + rhs
f64_add(l, r) ==
    IF BothInt(l, r) /\ Exact(l.n + r.n) THEN IntV(l.n + r.n)
    ELSE FloatV("Add", l, r)

\* lhs - rhs
f64_sub(l, r) ==
    IF BothInt(l, r) /\ Exact(l.n - r.n) THEN IntV(l.n - r.n)
    ELSE FloatV("Sub", l, r)

\* lhs * rhs (a zero product with a negative factor is the negative zero)
f64_mul(l, r) ==
    IF BothInt(l, r) /\ l.n # 0 /\ r.n # 0 /\ Abs(l.n) <= MaxExact \div Abs(r.n)
    THEN IntV(l.n * r.n)
    ELSE IF BothInt(l, r) /\ (l.n = 0 \/ r.n = 0) /\ l.n >= 0 /\ r.n >= 0
    THEN IntV(0)
    ELSE FloatV("Mul", l, r)

\* lhs / rhs: no zero check, a zero divisor gives an infinity or NaN
f64_div(l, r) ==
    IF BothInt(l, r) /\ r.n # 0 /\ Abs(l.n) % Abs(r.n) = 0 /\ (l.n # 0 \/ r.n > 0)
    THEN IntV((IF (l.n < 0) = (r.n < 0) THEN 1 ELSE -1) * (Abs(l.n) \div Abs(r.n)))
    ELSE FloatV("Div", l, r)

\* lhs % rhs: the remainder has the sign of the dividend
f64_rem(l, r) ==
    IF BothInt(l, r) /\ r.n # 0 /\ l.n >= 0
    THEN IntV(l.n % Abs(r.n))
    ELSE IF BothInt(l, r) /\ r.n # 0 /\ Abs(l.n) % Abs(r.n) # 0
    THEN IntV(-(Abs(l.n) % Abs(r.n)))
    ELSE FloatV("Mod", l, r)

\* acc * a^b for b >= 0 and |a| >= 2, or MaxExact + 1 once the magnitude
\* exceeds MaxExact
RECURSIVE pow_from(_, _, _)
pow_from(a, b, acc) ==
    IF b = 0 THEN acc
    ELSE IF Abs(acc) > MaxExact \div Abs(a) THEN MaxExact + 1
    ELSE pow_from(a, b - 1, acc * a)

\* a^b for b >= 0, or MaxExact + 1 once the magnitude exceeds MaxExact
int_pow(a, b) ==
    IF b = 0 \/ a = 1 THEN 1
    ELSE IF a = 0 THEN 0
    ELSE IF a = -1 THEN (IF b % 2 = 0 THEN 1 ELSE -1)
    ELSE pow_from(a, b, 1)

\* lhs.powf(rhs)
f64_powf(l, r) ==
    IF BothInt(l, r) /\ r.n >= 0 /\ Exact(int_pow(l.n, r.n))
    THEN IntV(int_pow(l.n, r.n))
    ELSE FloatV("Pow", l, r)

IsSquare(n) == n >= 0 /\ \E q \in 0..n : q * q = n

\* rhs.powf(1.0 / lhs): the lhs is the index of the root
f64_root(l, r) ==
    IF l = IntV(1) THEN r
    ELSE IF l = IntV(2) /\ r.t = "int" /\ IsSquare(r.n)
    THEN IntV(CHOOSE q \in 0..r.n : q * q = r.n)
    ELSE FloatV("Root", l, r)

\* the arithmetic of the seven operator arms of Expression::eval
Arith(kind, l, r) ==
    CASE kind = "Add" -> f64_add(l, r)
      [] kind = "Sub" -> f64_sub(l, r)
      [] kind = "Mul" -> f64_mul(l, r)
      [] kind = "Div" -> f64_div(l, r)
      [] kind = "Mod" -> f64_rem(l, r)
      [] kind = "Pow" -> f64_powf(l, r)
      [] kind = "Root" -> f64_root(l, r)

RECURSIVE count_dots(_)
count_dots(text) ==
    IF text = <<>> THEN 0
    ELSE (IF Head(text) = "." THEN 1 ELSE 0) + count_dots(Tail(text))

\* value of a text of decimal digits, or MaxExact + 1 once it exceeds MaxExact
RECURSIVE digits_value(_, _)
digits_value(text, acc) ==
    IF text = <<>> THEN acc
    ELSE IF acc > MaxExact \div 10 THEN MaxExact + 1
    ELSE digits_value(Tail(text), acc * 10 + to_digit(Head(text)))

dot_index(text) == CHOOSE i \in 1..Len(text) : text[i] = "."

\* val.parse::<f64>() of a literal text made of digits and dots that starts
\* with a digit and does not end in a dot
parse_f64(text) ==
    IF count_dots(text) > 1 THEN [ok |-> FALSE]
    ELSE LET whole == IF count_dots(text) = 0 THEN text
                      ELSE SubSeq(text, 1, dot_index(text) - 1)
             frac  == IF count_dots(text) = 0 THEN <<>>
                      ELSE SubSeq(text, dot_index(text) + 1, Len(text))
         IN  IF (\A i \in 1..Len(frac) : frac[i] = "0")
                /\ Exact(digits_value(whole, 0))
             THEN [ok |-> TRUE, v |-> IntV(digits_value(whole, 0))]
             ELSE [ok |-> TRUE, v |-> [t |-> "lit", s |-> text]]

-----------------------------------------------------------------------------
(* Group::parse_params and Group::resolve (src/lib.rs 114-183) *)

\* Vec::remove(i), 1-based
Remove(seq, i) == SubSeq(seq, 1, i - 1) \o SubSeq(seq, i + 1, Len(seq))

\* body with its element i replaced
Replace(seq, i, e) == [seq EXCEPT ![i] = e]

SignKinds == {"Add", "Sub"}

\* bind_params with the implicit zero given to every operator
bind_params_zero_for_all(exp, lhs, rhs) ==
    IF exp.k \in OpKinds
    THEN [ok |-> TRUE, err |-> "",
          exp |-> Op(exp.k, IF lhs = None THEN Unit(<<"0">>) ELSE lhs, rhs)]
    ELSE [ok |-> FALSE, err |-> "UnexpectedExpression", exp |-> exp]

\* bind_params with no implicit zero for Add and Sub either
bind_params_no_sign(exp, lhs, rhs) ==
    IF exp.k \in OpKinds
    THEN IF lhs = None
         THEN [ok |-> FALSE, err |-> "MissingLeftOperand", exp |-> exp]
         ELSE [ok |-> TRUE, err |-> "", exp |-> Op(exp.k, lhs, rhs)]
    ELSE [ok |-> FALSE, err |-> "UnexpectedExpression", exp |-> exp]

\* bind_params setting the rhs before it tests the lhs
bind_params_rhs_first(exp, lhs, rhs) ==
    IF exp.k \in SignKinds
    THEN [ok |-> TRUE, err |-> "",
          exp |-> Op(exp.k, IF lhs = None THEN Unit(<<"0">>) ELSE lhs, rhs)]
    ELSE IF exp.k \in OpKinds
    THEN IF lhs = None
         THEN [ok |-> FALSE, err |-> "MissingLeftOperand",
               exp |-> Op(exp.k, None, rhs)]
         ELSE [ok |-> TRUE, err |-> "", exp |-> Op(exp.k, lhs, rhs)]
    ELSE [ok |-> FALSE, err |-> "UnexpectedExpression", exp |-> exp]

\* the match on the selected operator at the end of parse_params: Add and
\* Sub take the literal 0 for a missing lhs, the other operators fail on it
\* before they set an operand
bind_params(exp, lhs, rhs) ==
    IF exp.k \in SignKinds
    THEN [ok |-> TRUE, err |-> "",
          exp |-> Op(exp.k, IF lhs = None THEN Unit(<<"0">>) ELSE lhs, rhs)]
    ELSE IF exp.k \in OpKinds
    THEN IF lhs = None
         THEN [ok |-> FALSE, err |-> "MissingLeftOperand", exp |-> exp]
         ELSE [ok |-> TRUE, err |-> "", exp |-> Op(exp.k, lhs, rhs)]
    ELSE [ok |-> FALSE, err |-> "UnexpectedExpression", exp |-> exp]

\* parse_params binding a copy of the rhs and leaving the rhs in the body
parse_params_keep_rhs(body, exp_idx) ==
    IF exp_idx = Len(body)
    THEN [ok |-> FALSE, err |-> "MissingRightOperand", body |-> body]
    ELSE LET rhs  == body[exp_idx + 1]
             lhs  == IF exp_idx = 1 THEN None ELSE body[exp_idx - 1]
             idx  == IF exp_idx = 1 THEN 1 ELSE exp_idx - 1
             b2   == IF exp_idx = 1 THEN body ELSE Remove(body, exp_idx - 1)
             bind == bind_params(b2[idx], lhs, rhs)
         IN  [ok |-> bind.ok, err |-> bind.err, body |-> Replace(b2, idx, bind.exp)]

\* parse_params(exp_idx) on a group body; exp_idx is 1-based.  The outcome
\* holds the body as the call leaves it, also when it fails.
parse_params(body, exp_idx) ==
    IF exp_idx = Len(body)
    THEN [ok |-> FALSE, err |-> "MissingRightOperand", body |-> body]
    ELSE LET rhs  == body[exp_idx + 1]
             b1   == Remove(body, exp_idx + 1)
             lhs  == IF exp_idx = 1 THEN None ELSE b1[exp_idx - 1]
             idx  == IF exp_idx = 1 THEN 1 ELSE exp_idx - 1
             b2   == IF exp_idx = 1 THEN b1 ELSE Remove(b1, exp_idx - 1)
             bind == bind_params(b2[idx], lhs, rhs)
         IN  [ok |-> bind.ok, err |-> bind.err, body |-> Replace(b2, idx, bind.exp)]

\* tier_kinds with the Add/Sub loop before the Mul/Div/Mod loop
tier_kinds_add_first(tier) ==
    CASE tier = 1 -> {"Pow", "Root"}
      [] tier = 2 -> {"Add", "Sub"}
      [] tier = 3 -> {"Mul", "Div", "Mod"}

\* the operator kinds of the three while loops of resolve, in loop order
tier_kinds(tier) ==
    CASE tier = 1 -> {"Pow", "Root"}
      [] tier = 2 -> {"Mul", "Div", "Mod"}
      [] tier = 3 -> {"Add", "Sub"}

\* the closure given to position() in the loop of a tier
selects(e, tier) ==
    e.k \in tier_kinds(tier) /\ (e.lhs = None \/ e.lhs = None)

\* position() taking the last selected index (rposition)
position_last(body, tier) ==
    IF \E i \in 1..Len(body) : selects(body[i], tier)
    THEN CHOOSE i \in 1..Len(body) :
           selects(body[i], tier)
             /\ \A j \in (i + 1)..Len(body) : ~selects(body[j], tier)
    ELSE 0

\* body.iter().position(..): the first selected index, 0 for no index
position(body, tier) ==
    IF \E i \in 1..Len(body) : selects(body[i], tier)
    THEN CHOOSE i \in 1..Len(body) :
           selects(body[i], tier) /\ \A j \in 1..(i - 1) : ~selects(body[j], tier)
    ELSE 0

\* the tier whose loop resolve is running on this body: a loop ends only
\* when position() finds nothing, and no step adds an operator to the body,
\* so it is the first tier with a selected element (0 when resolve returns)
resolve_tier(body) ==
    IF position(body, 1) # 0 THEN 1
    ELSE IF position(body, 2) # 0 THEN 2
    ELSE IF position(body, 3) # 0 THEN 3
    ELSE 0

\* the index resolve passes to parse_params next, 0 when resolve returns Ok
resolve_idx(body) ==
    IF resolve_tier(body) = 0 THEN 0 ELSE position(body, resolve_tier(body))

-----------------------------------------------------------------------------
(* Expression::eval (src/lib.rs 29-106), one parse_params call at a time *)

Val(v) == [t |-> "val", v |-> v]

Err(kind, exp) == [t |-> "err", kind |-> kind, exp |-> exp]

\* the size check rejecting the empty body only
group_unresolved_empty(body) == Len(body) = 0

\* the group size check of the Group arm
group_unresolved(body) == Len(body) # 1

\* eval of e up to its next parse_params call: the value, the error, or the
\* step (the expression after the call, the path from e to the group that
\* makes the call, the body and index of the call, and its outcome)
RECURSIVE eval(_)
eval(e) ==
    IF e.k = "Unit" THEN
        LET value == parse_f64(e.val)
        IN  IF value.ok THEN Val(value.v) ELSE Err("InvalidNumericLiteral", e)
    ELSE IF e.k = "Group" THEN
        IF resolve_idx(e.body) # 0 THEN
            LET call == parse_params(e.body, resolve_idx(e.body))
            IN  [t |-> "step", e |-> Group(call.body), path |-> <<>>,
                 body |-> e.body, idx |-> resolve_idx(e.body), call |-> call]
        ELSE IF group_unresolved(e.body) THEN Err("UnresolvedExpression", e)
        ELSE LET inner == eval(e.body[1])
             IN  IF inner.t = "step"
                 THEN [inner EXCEPT !.e = Group(<<inner.e>>), !.path = <<"body">> \o @]
                 ELSE inner
    ELSE IF e.k \in OpKinds /\ e.lhs # None /\ e.rhs # None THEN
        LET lhs == eval(e.lhs)
        IN  IF lhs.t = "step"
            THEN [lhs EXCEPT !.e = Op(e.k, lhs.e, e.rhs), !.path = <<"lhs">> \o @]
            ELSE IF lhs.t = "err" THEN lhs
            ELSE LET rhs == eval(e.rhs)
                 IN  IF rhs.t = "step"
                     THEN [rhs EXCEPT !.e = Op(e.k, e.lhs, rhs.e),
                                      !.path = <<"rhs">> \o @]
                     ELSE IF rhs.t = "err" THEN rhs
                     ELSE Val(Arith(e.k, lhs.v, rhs.v))
    ELSE Err("InternalInconsistency", e)

-----------------------------------------------------------------------------
(* Inputs *)

\* all texts over the characters S of length up to n
Texts(S, n) == UNION {[1..m -> S] : m \in 0..n}

\* characters of the character-level specification: a digit, the point, the
\* parentheses, an operator, a blank, the hex prefix and a hex letter (which
\* outside a hex literal is an unexpected character)
Chars == {"1", ".", "(", ")", "+", " ", "#", "f"}

\* characters of the expression-level specification
ExprChars == {"2", "(", ")"} \cup OpChars

LitChars == {Digits[i + 1] : i \in 0..MaxLit}

\* a o1 b o2 c, (a o1 b) o2 c and a o1 (b o2 c)
Triples ==
    UNION {{<<a, o1, b, o2, c>>,
            <<"(", a, o1, b, ")", o2, c>>,
            <<a, o1, "(", b, o2, c, ")">>} :
           <<a, o1, b, o2, c>> \in LitChars \X OpChars \X LitChars \X OpChars \X LitChars}

-----------------------------------------------------------------------------
(* The evaluation of one input (src/main.rs 13-31) *)

NoResult == [t |-> "none"]

Start(texts) ==
    /\ input \in texts
    /\ pc = "start"
    /\ root = None
    /\ result = NoResult

Init == Start(Texts(Chars, MaxLen))

InitExpr == Start(Texts(ExprChars, MaxExprLen) \cup Triples)

\* Expression::root(input)
Root ==
    /\ pc = "start"
    /\ LET body == tokenize(input)
       IN  IF body.ok
           THEN /\ root' = Group(body.exps)
                /\ pc' = "eval"
                /\ UNCHANGED result
           ELSE /\ result' = Err(body.err, None)
                /\ pc' = "done"
                /\ UNCHANGED root
    /\ UNCHANGED input

\* root.eval() reaches a parse_params call in the group it is resolving
ResolveStep ==
    /\ pc = "eval"
    /\ eval(root).t = "step"
    /\ LET step == eval(root)
       IN  /\ root' = step.e
           /\ IF step.call.ok
              THEN UNCHANGED <<pc, result>>
              ELSE /\ pc' = "done"
                   /\ result' = Err(step.call.err, None)
    /\ UNCHANGED input

\* root.eval() returns a number or an error
EvalReturn ==
    /\ pc = "eval"
    /\ eval(root).t # "step"
    /\ result' = eval(root)
    /\ pc' = "done"
    /\ UNCHANGED <<input, root>>

Next == Root \/ ResolveStep \/ EvalReturn

Spec == Init /\ [][Next]_vars

SpecExpr == InitExpr /\ [][Next]_vars

-----------------------------------------------------------------------------
(* Vocabulary of the properties *)

\* every expression in the tree e, e included
RECURSIVE Nodes(_)
Nodes(e) ==
    {e} \cup
    (IF e.k = "Group" THEN UNION {Nodes(e.body[i]) : i \in 1..Len(e.body)}
     ELSE IF e.k \in OpKinds THEN Nodes(e.lhs) \cup Nodes(e.rhs)
     ELSE {})

Groups(e) == {g \in Nodes(e) : g.k = "Group"}

Units(e) == {u \in Nodes(e) : u.k = "Unit"}

Operators(e) == {o \in Nodes(e) : o.k \in OpKinds}

\* the expression at a path of eval below e
RECURSIVE At(_, _)
At(e, path) ==
    IF path = <<>> THEN e
    ELSE At(CASE Head(path) = "body" -> e.body[1]
              [] Head(path) = "lhs" -> e.lhs
              [] Head(path) = "rhs" -> e.rhs,
            Tail(path))

\* precedence as the documentation ranks it: Pow/Root above Mul/Div/Mod
\* above Add/Sub
Rank(c) ==
    CASE c \in {"^", "~"} -> 3
      [] c \in {"*", "/", "%"} -> 2
      [] c \in {"+", "-"} -> 1

LitV(c) == IntV(to_digit(c))

\* the value of  l c r  for an operator character c
Bin(c, l, r) == Arith(op_of_char(c), l, r)

\* a o1 b o2 c
IsTriple(s) ==
    /\ Len(s) = 5
    /\ is_digit10(s[1]) /\ s[2] \in OpChars /\ is_digit10(s[3])
    /\ s[4] \in OpChars /\ is_digit10(s[5])

\* (a o1 b) o2 c
IsLeftGrouped(s) ==
    /\ Len(s) = 7
    /\ s[1] = "(" /\ is_digit10(s[2]) /\ s[3] \in OpChars /\ is_digit10(s[4])
    /\ s[5] = ")" /\ s[6] \in OpChars /\ is_digit10(s[7])

IsErr(r, kind) == r.t = "err" /\ r.kind = kind

-----------------------------------------------------------------------------
(* Properties *)

\* C1: precedence follows the tier order and only parentheses override it:
\* with hi of a strictly higher tier than lo, 'a lo b hi c' evaluates as
\* a lo (b hi c), 'a hi b lo c' as (a hi b) lo c, and '(a lo b) hi c'
\* evaluates the group first.
Precedence ==
    pc = "done" =>
      /\ IsTriple(input) /\ Rank(input[2]) < Rank(input[4]) =>
           result = Val(Bin(input[2], LitV(input[1]),
                            Bin(input[4], LitV(input[3]), LitV(input[5]))))
      /\ IsTriple(input) /\ Rank(input[2]) > Rank(input[4]) =>
           result = Val(Bin(input[4],
                            Bin(input[2], LitV(input[1]), LitV(input[3])),
                            LitV(input[5])))
      /\ IsLeftGrouped(input) /\ Rank(input[3]) < Rank(input[6]) =>
           result = Val(Bin(input[6],
                            Bin(input[3], LitV(input[2]), LitV(input[4])),
                            LitV(input[7])))

\* (2+3)*4 has been evaluated to 20
PrecedenceWitness ==
    /\ pc = "done"
    /\ input = <<"(", "2", "+", "3", ")", "*", "4">>
    /\ result = Val(IntV(20))

\* C2: operators of one tier bind to the left: 'a o1 b o2 c' with o1 and o2
\* of the same tier is resolved to the tree (a o1 b) o2 c and evaluates to
\* its value.
LeftAssociative ==
    pc = "done" /\ IsTriple(input) /\ Rank(input[2]) = Rank(input[4]) =>
      /\ root = Group(<<Op(op_of_char(input[4]),
                           Op(op_of_char(input[2]),
                              Unit(<<input[1]>>), Unit(<<input[3]>>)),
                           Unit(<<input[5]>>))>>)
      /\ result = Val(Bin(input[4],
                          Bin(input[2], LitV(input[1]), LitV(input[3])),
                          LitV(input[5])))

\* 2^3^2 has been evaluated to 64
LeftAssociativeWitness ==
    /\ pc = "done"
    /\ input = <<"2", "^", "3", "^", "2">>
    /\ result = Val(IntV(64))

\* C3: for an input that tokenizes, evaluation never ends in the
\* internal-consistency error: no operator with an unset operand reaches
\* the evaluator.
NoInternalInconsistency ==
    pc = "done" => ~IsErr(result, "InternalInconsistency")

\* C4: an operator selected at position zero with a following element: Add
\* and Sub take the literal 0 as left operand and the following element as
\* right operand; Mul, Div, Mod, Pow and Root fail with the missing left
\* operand error and the evaluation returns no number.
OperatorAtZero ==
    [][(pc = "eval" /\ eval(root).t = "step" /\ eval(root).idx = 1
           /\ Len(eval(root).body) > 1) =>
         LET step == eval(root)
         IN  IF step.body[1].k \in {"Add", "Sub"}
             THEN /\ pc' = "eval"
                  /\ At(root', step.path).body =
                       <<Op(step.body[1].k, Unit(<<"0">>), step.body[2])>>
                         \o SubSeq(step.body, 3, Len(step.body))
             ELSE /\ pc' = "done"
                  /\ result' = Err("MissingLeftOperand", None)]_vars

\* the sign of (-2) has been resolved inside its group and evaluated
OperatorAtZeroWitness ==
    /\ pc = "done"
    /\ input = <<"(", "-", "2", ")">>
    /\ root = Group(<<Group(<<Op("Sub", Unit(<<"0">>), Unit(<<"2">>))>>)>>)
    /\ result = Val(IntV(-2))

\* number of '(' minus number of ')' in the first n characters of s
RECURSIVE Depth(_, _)
Depth(s, n) ==
    IF n = 0 THEN 0
    ELSE Depth(s, n - 1) + (IF s[n] = "(" THEN 1 ELSE IF s[n] = ")" THEN -1 ELSE 0)

ClosesUnopened(s) == \E n \in 1..Len(s) : Depth(s, n) < 0

Balanced(s) == ~ClosesUnopened(s) /\ Depth(s, Len(s)) = 0

IsParen(c) == c \in {"(", ")"}

\* the input with blanks for its parentheses: it tokenizes exactly when every
\* character is recognised and every hex literal is valid
Blank(s) == [i \in 1..Len(s) |-> IF IsParen(s[i]) THEN " " ELSE s[i]]

\* the parentheses that the nesting of the groups of a token sequence spells
RECURSIVE Skeleton(_)
Skeleton(body) ==
    IF body = <<>> THEN <<>>
    ELSE (IF Head(body).k = "Group"
          THEN <<"(">> \o Skeleton(Head(body).body) \o <<")">>
          ELSE <<>>) \o Skeleton(Tail(body))

\* C5: for an input of recognised characters, tokenize succeeds exactly when
\* the parentheses are balanced, and then the groups nest as the parentheses
\* do; a ')' outside a capture fails with UnmatchedCloseParen and a '(' never
\* closed before the end of the input with UnterminatedGroup.
ParenthesesByDepth ==
    [][(pc = "start" /\ tokenize(Blank(input)).ok) =>
         /\ (pc' = "eval") <=> Balanced(input)
         /\ pc' = "eval" =>
              /\ root'.k = "Group"
              /\ Skeleton(root'.body) = SelectSeq(input, IsParen)
         /\ ClosesUnopened(input) =>
              pc' = "done" /\ result' = Err("UnmatchedCloseParen", None)
         /\ ~ClosesUnopened(input) /\ Depth(input, Len(input)) > 0 =>
              pc' = "done" /\ result' = Err("UnterminatedGroup", None)]_vars

\* (()) has been tokenized into a group in a group
ParenthesesByDepthWitness ==
    /\ pc = "eval"
    /\ input = <<"(", "(", ")", ")">>
    /\ root = Group(<<Group(<<Group(<<>>)>>)>>)

\* the group size check, on every group whose resolution is complete:
\* no value unless one element remains, and UnresolvedExpression for the
\* group itself, before any element is evaluated, when the size is not one
SizeChecked(low) ==
    /\ \A g \in Groups(root) :
         resolve_idx(g.body) = 0 =>
           /\ eval(g).t = "val" => Len(g.body) = 1
           /\ (Len(g.body) > 1 \/ Len(g.body) < low) =>
                eval(g) = Err("UnresolvedExpression", g)
    /\ pc = "done" /\ result.t = "val" =>
         \A g \in Groups(root) : Len(g.body) = 1

\* C6 as stated: for a non-empty input a group whose resolution completes
\* holds at least one element; a value only from exactly one element; more
\* than one element fails with UnresolvedExpression.
GroupNeverEmpty ==
    /\ SizeChecked(0)
    /\ input # <<>> =>
         \A g \in Groups(root) : resolve_idx(g.body) = 0 => Len(g.body) >= 1

\* C6 amended: a group whose resolution completes may hold no element; a
\* value only from exactly one element; none or more than one element fails
\* with UnresolvedExpression and no element is evaluated.
GroupSizeChecked == SizeChecked(1)

\* () has failed with UnresolvedExpression on its empty group
GroupSizeCheckedWitness ==
    /\ pc = "done"
    /\ input = <<"(", ")">>
    /\ result = Err("UnresolvedExpression", Group(<<>>))

\* C7: every literal the tokenizer emits holds at most one '.' and does not
\* end in '.'.
LiteralOnePoint ==
    \A u \in Units(root) : count_dots(u.val) <= 1 /\ ~ends_with_dot(u.val)

\* operand, operator, operand, ... after an optional leading sign, in this
\* token sequence and in every group of it
RECURSIVE Alternating(_)
Alternating(body) ==
    LET b == IF body # <<>> /\ Head(body).k \in SignKinds THEN Tail(body) ELSE body
    IN  /\ Len(b) % 2 = 1
        /\ \A i \in 1..Len(b) :
             IF i % 2 = 1
             THEN \/ b[i].k = "Unit"
                  \/ b[i].k = "Group" /\ Alternating(b[i].body)
             ELSE b[i].k \in OpKinds

\* C8: evaluate_string returns a number exactly when the input tokenizes
\* and, in the root and in every group, the tokens are an optional leading
\* '+' or '-' followed by operands and operators in strict alternation from
\* operand to operand (every literal being a float).
NumberIffAlternating ==
    LET body == tokenize(input)
    IN  (pc = "done"
          /\ (body.ok => \A u \in Units(Group(body.exps)) : parse_f64(u.val).ok))
        => (result.t = "val" <=> (body.ok /\ Alternating(body.exps)))

\* 2*-2, with two adjacent operators, has ended in an error
NumberIffAlternatingWitness ==
    /\ pc = "done"
    /\ input = <<"2", "*", "-", "2">>
    /\ result.t = "err"

\* C9: a parse_params call fails or removes one element (implicit zero) or
\* two (both neighbours); the resolved operator then sits where its left
\* operand was (first when the zero is implicit), is selected by no tier
\* again, and the other elements keep their order.
ReductionShrinks ==
    [][(pc = "eval" /\ eval(root).t = "step") =>
         LET step   == eval(root)
             before == step.body
             i      == step.idx
             after  == At(root', step.path).body
         IN  \/ pc' = "done" /\ result'.t = "err"
             \/ /\ pc' = "eval"
                /\ i = 1
                /\ Len(after) = Len(before) - 1
                /\ after[1] = Op(before[1].k, Unit(<<"0">>), before[2])
                /\ \A j \in 2..Len(after) : after[j] = before[j + 1]
                /\ \A t \in 1..3 : ~selects(after[1], t)
             \/ /\ pc' = "eval"
                /\ i > 1
                /\ Len(after) = Len(before) - 2
                /\ after[i - 1] = Op(before[i].k, before[i - 1], before[i + 1])
                /\ \A j \in 1..(i - 2) : after[j] = before[j]
                /\ \A j \in i..Len(after) : after[j] = before[j + 2]
                /\ \A t \in 1..3 : ~selects(after[i - 1], t)]_vars

\* 2*2 has been reduced to one element and nothing is left to resolve
ReductionShrinksWitness ==
    /\ pc = "eval"
    /\ input = <<"2", "*", "2">>
    /\ root = Group(<<Op("Mul", Unit(<<"2">>), Unit(<<"2">>))>>)

\* the first element of a tier with any operand unset, 0 for none
position_any(body, tier) ==
    LET open(e) == e.k \in tier_kinds(tier) /\ (e.lhs = None \/ e.rhs = None)
    IN  IF \E i \in 1..Len(body) : open(body[i])
        THEN CHOOSE i \in 1..Len(body) :
               open(body[i]) /\ \A j \in 1..(i - 1) : ~open(body[j])
        ELSE 0

\* C10: every operator node has both operands unset or both set, so the
\* selection test, which looks at the left operand only, selects the
\* leftmost operator of the tier that has any operand unset.
OperandsBothOrNeither ==
    /\ \A o \in Operators(root) : (o.lhs = None) <=> (o.rhs = None)
    /\ \A g \in Groups(root) : \A t \in 1..3 :
         position(g.body, t) = position_any(g.body, t)

\* 2*3+4 after its first reduction: a resolved Mul next to an unresolved Add
OperandsBothOrNeitherWitness ==
    /\ pc = "eval"
    /\ input = <<"2", "*", "3", "+", "4">>
    /\ root = Group(<<Op("Mul", Unit(<<"2">>), Unit(<<"3">>)),
                      Op("Add", None, None), Unit(<<"4">>)>>)

====
